---- MODULE Spec2Model ----
(***************************************************************************)
(* Model of the create-dart-test extension (src/src/constants.ts):         *)
(* the class-declaration matcher, the test-path / import-path deriver,     *)
(* the test-content generator, the create-test command and the file        *)
(* watcher.  Strings are sequences of one-character strings, so that       *)
(* prefix tests, substring, split/join and replace are computed on         *)
(* characters as the code computes them.                                   *)
(***************************************************************************)
EXTENDS Integers, Sequences, FiniteSets, TLC

VARIABLES
    sep,        \* path.sep of the host: "/" (posix) or "\\" (win32)
    manifest,   \* pubspec.yaml at the workspace root: [present, content]
    srcs,       \* the source uris a code lens can be clicked on
    budget,     \* how many command invocations the user issues
    files,      \* file system: path -> content, for the files that exist
    dirs,       \* directories created through createDirectory
    runs,       \* one record per handleCreateTestCommand invocation
    writes,     \* history: every writeFile applied, in order
    faults,     \* how many I/O operations have failed so far
    doc,        \* provideCodeLenses: document.getText()
    docLines,   \* how doc was typed, line by line (ghost)
    lensPc,     \* provideCodeLenses: [state, i], i the loop index
    lenses,     \* provideCodeLenses: the lenses pushed so far
    present,    \* watcher: the .dart files present in the workspace
    lastEvent,  \* watcher: the last event delivered [kind, path]
    refreshed   \* watcher: the paths refreshed while handling lastEvent

vars == <<sep, manifest, srcs, budget, files, dirs, runs, writes, faults,
          doc, docLines, lensPc, lenses, present, lastEvent, refreshed>>

orchVars == <<sep, manifest, srcs, budget, files, dirs, runs, writes, faults>>
lensVars == <<doc, docLines, lensPc, lenses>>
watchVars == <<present, lastEvent, refreshed>>

----------------------------------------------------------------------------
(* Bounds *)

MaxRuns == 2
MaxFaults == 1
MaxDepth == 2
MaxMods == 2
MaxContext == 1

----------------------------------------------------------------------------
(* Character classes and JavaScript string operations *)

Lower == {"a","b","c","d","e","f","g","h","i","j","k","l","m",
          "n","o","p","q","r","s","t","u","v","w","x","y","z"}
Upper == {"A","B","C","D","E","F","G","H","I","J","K","L","M",
          "N","O","P","Q","R","S","T","U","V","W","X","Y","Z"}
Digit == {"0","1","2","3","4","5","6","7","8","9"}

\* \s of a JavaScript regular expression, over the characters used here
IsSpace(c) == c \in {" ", "\t", "\n", "\r"}

StartsWith(s, p) == Len(s) >= Len(p) /\ SubSeq(s, 1, Len(p)) = p

EndsWith(s, p) == Len(s) >= Len(p) /\ SubSeq(s, Len(s) - Len(p) + 1, Len(s)) = p

\* s.substring(n)
Substring(s, n) == SubSeq(s, n + 1, Len(s))

\* 1-based position of the first occurrence of p in s, 0 when there is none
IndexOf(s, p) ==
    LET hits == {i \in 1..(Len(s) - Len(p) + 1) : SubSeq(s, i, i + Len(p) - 1) = p}
    IN  IF hits = {} THEN 0 ELSE CHOOSE i \in hits : \A j \in hits : i <= j

Includes(s, p) == IndexOf(s, p) # 0

\* s.replace(p, q) with a string pattern: the first occurrence only
ReplaceFirst(s, p, q) ==
    LET i == IndexOf(s, p)
    IN  IF i = 0 THEN s
        ELSE SubSeq(s, 1, i - 1) \o q \o SubSeq(s, i + Len(p), Len(s))

\* s.split(c) for a one-character separator c
RECURSIVE Split(_, _)
Split(s, c) ==
    LET i == IndexOf(s, <<c>>)
    IN  IF i = 0 THEN <<s>>
        ELSE <<SubSeq(s, 1, i - 1)>> \o Split(SubSeq(s, i + 1, Len(s)), c)

\* parts.join(c)
RECURSIVE Join(_, _)
Join(parts, c) ==
    IF Len(parts) = 0 THEN <<>>
    ELSE IF Len(parts) = 1 THEN parts[1]
    ELSE parts[1] \o c \o Join(Tail(parts), c)

----------------------------------------------------------------------------
(* Node's path module, for the host whose separator is sp *)

\* win32 accepts both slashes as separators, posix only "/"
IsSep(sp, c) == c = sp \/ (sp = "\\" /\ c = "/")

\* the pieces of p between separators
RECURSIVE RawSegs(_, _)
RawSegs(sp, p) ==
    LET hits == {i \in 1..Len(p) : IsSep(sp, p[i])}
    IN  IF hits = {} THEN <<p>>
        ELSE LET i == CHOOSE k \in hits : \A j \in hits : k <= j
             IN  <<SubSeq(p, 1, i - 1)>> \o RawSegs(sp, SubSeq(p, i + 1, Len(p)))

\* normalisation of a segment list: "" and "." dropped, ".." resolved
RECURSIVE NormSegs(_, _)
NormSegs(done, todo) ==
    IF Len(todo) = 0 THEN done
    ELSE LET h == Head(todo)
         IN  IF h = <<>> \/ h = <<".">> THEN NormSegs(done, Tail(todo))
             ELSE IF h = <<".", ".">> /\ Len(done) > 0 /\ done[Len(done)] # <<".", ".">>
                  THEN NormSegs(SubSeq(done, 1, Len(done) - 1), Tail(todo))
             ELSE NormSegs(Append(done, h), Tail(todo))

IsAbsolute(sp, p) == Len(p) > 0 /\ IsSep(sp, p[1])

Segs(sp, p) == NormSegs(<<>>, RawSegs(sp, p))

\* path.normalize
PathNormalize(sp, p) ==
    LET segs == Segs(sp, p)
        body == Join(segs, <<sp>>)
    IN  IF IsAbsolute(sp, p) THEN <<sp>> \o body
        ELSE IF body = <<>> THEN <<".">> ELSE body

\* path.join(...parts): the non-empty parts joined by sep, then normalised
PathJoin(sp, parts) ==
    LET keep == SelectSeq(parts, LAMBDA x : Len(x) > 0)
    IN  IF Len(keep) = 0 THEN <<".">> ELSE PathNormalize(sp, Join(keep, <<sp>>))

\* path.dirname
PathDirname(sp, p) ==
    LET hits == {i \in 1..Len(p) : IsSep(sp, p[i])}
    IN  IF hits = {} THEN <<".">>
        ELSE LET i == CHOOSE k \in hits : \A j \in hits : k >= j
             IN  IF i = 1 THEN <<p[1]>> ELSE SubSeq(p, 1, i - 1)

\* the last segment of p
LastSeg(sp, p) ==
    LET hits == {i \in 1..Len(p) : IsSep(sp, p[i])}
    IN  IF hits = {} THEN p
        ELSE LET i == CHOOSE k \in hits : \A j \in hits : k >= j
             IN  SubSeq(p, i + 1, Len(p))

\* path.extname: from the last "." of the last segment, unless that is its first character
PathExtname(sp, p) ==
    LET b == LastSeg(sp, p)
        dots == {i \in 1..Len(b) : b[i] = "."}
    IN  IF dots = {} THEN <<>>
        ELSE LET i == CHOOSE k \in dots : \A j \in dots : k >= j
             IN  IF i = 1 THEN <<>> ELSE SubSeq(b, i, Len(b))

\* path.basename(p, ext)
PathBasename(sp, p, ext) ==
    LET b == LastSeg(sp, p)
    IN  IF Len(ext) > 0 /\ b # ext /\ EndsWith(b, ext)
        THEN SubSeq(b, 1, Len(b) - Len(ext))
        ELSE b

\* length of the longest common prefix of two segment lists
RECURSIVE CommonLen(_, _)
CommonLen(a, b) ==
    IF Len(a) = 0 \/ Len(b) = 0 \/ Head(a) # Head(b) THEN 0
    ELSE 1 + CommonLen(Tail(a), Tail(b))

\* path.relative(from, to), both absolute or both relative to the same directory
PathRelative(sp, from, to) ==
    LET fs == Segs(sp, from)
        ts == Segs(sp, to)
        k  == CommonLen(fs, ts)
        ups == [i \in 1..(Len(fs) - k) |-> <<".", ".">>]
    IN  Join(ups \o SubSeq(ts, k + 1, Len(ts)), <<sp>>)

----------------------------------------------------------------------------
(* Literals *)

S_lib == <<"l","i","b">>
S_libFwd == <<"l","i","b","/">>
S_test == <<"t","e","s","t">>
S_testSuffix == <<"_","t","e","s","t">>
S_dotSlash == <<".","/">>
S_package == <<"p","a","c","k","a","g","e",":">>
S_pubspec == <<"p","u","b","s","p","e","c",".","y","a","m","l">>
S_name == <<"n","a","m","e",":">>
S_fileScheme == <<"f","i","l","e",":","/","/">>
S_testDart == <<"_","t","e","s","t",".","d","a","r","t">>
S_dart == <<".","d","a","r","t">>

----------------------------------------------------------------------------
(* vscode.Uri *)

\* Uri.parse(uri).fsPath: the path of a file: uri, with the host's separator
MapSlash(sp, s) == [i \in 1..Len(s) |-> IF s[i] = "/" THEN sp ELSE s[i]]

FsPath(sp, uri) ==
    MapSlash(sp, IF StartsWith(uri, S_fileScheme) THEN Substring(uri, Len(S_fileScheme)) ELSE uri)

\* the workspace folders of the window: one folder, /p
WorkspaceFolderUri == S_fileScheme \o <<"/", "p">>

\* vscode.workspace.getWorkspaceFolder(uri) finds a folder containing uri
InWorkspaceFolder(uri) == StartsWith(uri, WorkspaceFolderUri \o <<"/">>)

----------------------------------------------------------------------------
(* Path Deriver *)

Null == [isNull |-> TRUE, value |-> <<>>]
Some(v) == [isNull |-> FALSE, value |-> v]

\* isUnderLibDirectory(relativePath)
isUnderLibDirectory_prefixOnly(sp, relativePath) ==
    StartsWith(relativePath, S_lib)

isUnderLibDirectory(sp, relativePath) ==
    StartsWith(relativePath, S_lib \o <<sp>>) \/ StartsWith(relativePath, S_libFwd)

\* first index j >= i of s whose character is outside cls, Len(s) + 1 when none
SkipClass(s, i, cls) ==
    LET stops == {j \in i..(Len(s) + 1) : j = Len(s) + 1 \/ s[j] \notin cls}
    IN  CHOOSE j \in stops : \A k \in stops : j <= k

\* content.match(/^name:\s*([a-z_][a-z0-9_]*)\s*$/m) attempted at line start i:
\* the end of the identifier when the pattern matches there, 0 otherwise
NameMatchEnd(content, i) ==
    IF ~StartsWith(SubSeq(content, i, Len(content)), S_name) THEN 0
    ELSE LET j == SkipClass(content, i + Len(S_name), {" ", "\t", "\n", "\r"})
         IN  IF j > Len(content) \/ content[j] \notin (Lower \cup {"_"}) THEN 0
             ELSE LET k == SkipClass(content, j + 1, Lower \cup Digit \cup {"_"})
                      e == SkipClass(content, k, {" ", "\t", "\n", "\r"})
                  IN  IF e > Len(content)
                         \/ \E q \in k..(e - 1) : content[q] \in {"\n", "\r"}
                      THEN k ELSE 0

\* the captured group of the first match, or null
MatchPackageName(content) ==
    LET starts == {i \in 1..Len(content) :
                      /\ (i = 1 \/ content[i - 1] \in {"\n", "\r"})
                      /\ NameMatchEnd(content, i) # 0}
    IN  IF starts = {} THEN Null
        ELSE LET i == CHOOSE a \in starts : \A b \in starts : a <= b
                 j == SkipClass(content, i + Len(S_name), {" ", "\t", "\n", "\r"})
             IN  Some(SubSeq(content, j, NameMatchEnd(content, i) - 1))

\* getPackageName(workspaceRoot), given the outcome of readFile on pubspec.yaml
getPackageName(readOk, content) ==
    IF readOk THEN MatchPackageName(content) ELSE Null

\* calculateTestFileInfoForLib with path.join(workspaceRoot, 'test', pathUnderLib)
calculateTestFileInfoForLib_noDirname(sp, workspaceRoot, sourcePath, relativePath, sourceFileName, ext, packageName) ==
    LET pathUnderLib == Substring(relativePath, 4)
        testFileName == sourceFileName \o S_testSuffix \o ext
        testDir == PathJoin(sp, <<workspaceRoot, S_test, pathUnderLib>>)
        testPath == PathJoin(sp, <<testDir, testFileName>>)
    IN  IF ~packageName.isNull /\ Len(packageName.value) > 0
        THEN LET pathForImport == Join(Split(pathUnderLib, sp), <<"/">>)
             IN  [testPath |-> testPath,
                  importPath |-> S_package \o packageName.value \o <<"/">> \o pathForImport]
        ELSE LET testRelativePath == PathRelative(sp, workspaceRoot, testPath)
                 sourceRelativePath == PathRelative(sp, workspaceRoot, sourcePath)
                 importPath == PathRelative(sp, PathDirname(sp, testRelativePath),
                                            sourceRelativePath)
             IN  [testPath |-> testPath,
                  importPath |-> Join(Split(importPath, sp), <<"/">>)]

\* calculateTestFileInfoForLib without the split(path.sep).join('/') conversions
calculateTestFileInfoForLib_noSlashes(sp, workspaceRoot, sourcePath, relativePath, sourceFileName, ext, packageName) ==
    LET pathUnderLib == Substring(relativePath, 4)
        dirUnderLib == PathDirname(sp, pathUnderLib)
        testFileName == sourceFileName \o S_testSuffix \o ext
        testDir == PathJoin(sp, <<workspaceRoot, S_test, dirUnderLib>>)
        testPath == PathJoin(sp, <<testDir, testFileName>>)
    IN  IF ~packageName.isNull /\ Len(packageName.value) > 0
        THEN [testPath |-> testPath,
              importPath |-> S_package \o packageName.value \o <<"/">> \o pathUnderLib]
        ELSE LET testRelativePath == PathRelative(sp, workspaceRoot, testPath)
                 sourceRelativePath == PathRelative(sp, workspaceRoot, sourcePath)
             IN  [testPath |-> testPath,
                  importPath |-> PathRelative(sp, PathDirname(sp, testRelativePath),
                                              sourceRelativePath)]

\* calculateTestFileInfoForLib
calculateTestFileInfoForLib(sp, workspaceRoot, sourcePath, relativePath, sourceFileName, ext, packageName) ==
    LET pathUnderLib == Substring(relativePath, 4)
        dirUnderLib == PathDirname(sp, pathUnderLib)
        testFileName == sourceFileName \o S_testSuffix \o ext
        testDir == PathJoin(sp, <<workspaceRoot, S_test, dirUnderLib>>)
        testPath == PathJoin(sp, <<testDir, testFileName>>)
    IN  IF ~packageName.isNull /\ Len(packageName.value) > 0
        THEN LET pathForImport == Join(Split(pathUnderLib, sp), <<"/">>)
             IN  [testPath |-> testPath,
                  importPath |-> S_package \o packageName.value \o <<"/">> \o pathForImport]
        ELSE LET testRelativePath == PathRelative(sp, workspaceRoot, testPath)
                 sourceRelativePath == PathRelative(sp, workspaceRoot, sourcePath)
                 importPath == PathRelative(sp, PathDirname(sp, testRelativePath),
                                            sourceRelativePath)
             IN  [testPath |-> testPath,
                  importPath |-> Join(Split(importPath, sp), <<"/">>)]

\* calculateTestFileInfoForNonLib
calculateTestFileInfoForNonLib(sp, sourcePath, sourceFileName, ext) ==
    LET sourceDir == PathDirname(sp, sourcePath)
        testFileName == sourceFileName \o S_testSuffix \o ext
    IN  [testPath |-> PathJoin(sp, <<sourceDir, testFileName>>),
         importPath |-> S_dotSlash \o sourceFileName \o ext]

\* handleCreateTestCommand, lines 309-311: the branch between the two
calculateTestFileInfo(sp, workspaceRoot, sourcePath, relativePath, sourceFileName, ext, packageName) ==
    IF isUnderLibDirectory(sp, relativePath)
    THEN calculateTestFileInfoForLib(sp, workspaceRoot, sourcePath, relativePath,
                                     sourceFileName, ext, packageName)
    ELSE calculateTestFileInfoForNonLib(sp, sourcePath, sourceFileName, ext)

----------------------------------------------------------------------------
(* Test-Content Generator *)

T_import == <<"i","m","p","o","r","t"," ","'">>
T_afterImport == <<"'",";","\n","\n","v","o","i","d"," ","m","a","i","n","(",")"," ","{","\n"," "," ","g","r","o","u","p","(","'">>
T_afterGroup == <<"'",","," ","(",")"," ","{","\n","\n"," "," ","}",")",";","\n","}","\n">>

\* generateTestContent with the import path in the group name as well
generateTestContent_groupOfImport(className, importPath) ==
    T_import \o importPath \o T_afterImport \o importPath \o T_afterGroup

\* generateTestContent(className, importPath)
generateTestContent(className, importPath) ==
    T_import \o importPath \o T_afterImport \o className \o T_afterGroup

----------------------------------------------------------------------------
(* Inputs of the create-test command *)

SeqsUpTo(S, n) == UNION {[1..k -> S] : k \in 0..n}

DirNames == {S_lib, <<"l","i","b","x">>, <<"m">>}
FileNames == {<<"u",".","d","a","r","t">>, S_lib}
ClassNames == {<<"A">>, <<"B">>}

MkUri(ds, f) == WorkspaceFolderUri \o <<"/">> \o Join(ds \o <<f>>, <<"/">>)

OutsideUri == S_fileScheme \o <<"/","q","/","u",".","d","a","r","t">>
LibUri == MkUri(<<S_lib>>, <<"u",".","d","a","r","t">>)

\* every source uri of the workspace up to MaxDepth directories deep, and one outside it
AllUris == {MkUri(ds, f) : ds \in SeqsUpTo(DirNames, MaxDepth), f \in FileNames} \cup {OutsideUri}

\* pubspec.yaml as found at the workspace root; nameLine is the identifier its
\* `name: <identifier>` line declares, if it has such a line (ghost)
Manifests ==
    { [present |-> FALSE, content |-> <<>>, nameLine |-> Null],
      [present |-> TRUE, content |-> <<"n","a","m","e",":"," ","a","p","p","\n","v","e","r","s","i","o","n",":"," ","1","\n">>, nameLine |-> Some(<<"a","p","p">>)],
      [present |-> TRUE, content |-> <<"#"," ","x","\n","n","a","m","e",":","a","_","1"," "," ","\n">>, nameLine |-> Some(<<"a","_","1">>)],
      [present |-> TRUE, content |-> <<"n","a","m","e",":"," ","A","p","p","\n">>, nameLine |-> Null],
      [present |-> TRUE, content |-> <<"v","e","r","s","i","o","n",":"," ","1","\n">>, nameLine |-> Null],
      [present |-> TRUE, content |-> <<"n","a","m","e",":"," ","a","p","p"," ","#"," ","x","\n">>, nameLine |-> Null] }

NamedManifest == [present |-> TRUE, content |-> <<"n","a","m","e",":"," ","a","p","p","\n","v","e","r","s","i","o","n",":"," ","1","\n">>, nameLine |-> Some(<<"a","p","p">>)]

HandWritten == <<"/","/"," ","m","i","n","e","\n">>

PubspecPath(sp) == PathJoin(sp, <<FsPath(sp, WorkspaceFolderUri), S_pubspec>>)

\* the workspace's files before any command ran
InitialFiles(sp, m, tests) ==
    [p \in (IF m.present THEN {PubspecPath(sp)} ELSE {}) \cup tests |->
        IF p \in tests THEN HandWritten ELSE m.content]

Runs == 1..MaxRuns

\* an I/O operation of the host may fail, MaxFaults times in all
MayFail == IF faults < MaxFaults THEN {FALSE, TRUE} ELSE {FALSE}

IdleRun ==
    [pc |-> "idle", uri |-> <<>>, className |-> <<>>, workspaceRoot |-> <<>>,
     sourcePath |-> <<>>, relativePath |-> <<>>, sourceFileName |-> <<>>, ext |-> <<>>,
     packageName |-> Null, testPath |-> <<>>, importPath |-> <<>>, content |-> <<>>,
     existed |-> FALSE, log |-> <<>>, notes |-> <<>>]

Note(kind, text, path, cause) == [kind |-> kind, text |-> text, path |-> path, cause |-> cause]

\* the catch block of handleCreateTestCommand: showErrorMessage(`Failed to create test file: ${String(err)}`)
Caught(run, cause) ==
    [run EXCEPT !.pc = "done",
                !.notes = Append(@, Note("error", "Failed to create test file: ", <<>>, cause))]

Logged(run, event) == [run EXCEPT !.log = Append(@, event)]

----------------------------------------------------------------------------
(* handleCreateTestCommand, one action per suspension point *)

\* lines 288-306: up to the await of getPackageName
Invoke(r) ==
    /\ runs[r].pc = "idle"
    /\ r <= budget
    /\ IF r = 1 THEN TRUE ELSE runs[r - 1].pc # "idle"
    /\ \E uri \in srcs, className \in ClassNames :
        LET sourcePath == FsPath(sep, uri)
            ext == PathExtname(sep, sourcePath)
            sourceFileName == PathBasename(sep, sourcePath, ext)
            started == [runs[r] EXCEPT !.uri = uri, !.className = className,
                                       !.sourcePath = sourcePath, !.ext = ext,
                                       !.sourceFileName = sourceFileName]
        IN  IF ~InWorkspaceFolder(uri)
            THEN runs' = [runs EXCEPT ![r] =
                    [started EXCEPT !.pc = "done",
                                    !.notes = Append(@, Note("error", "File is not in a workspace folder", <<>>, ""))]]
            ELSE LET workspaceRoot == FsPath(sep, WorkspaceFolderUri)
                 IN  runs' = [runs EXCEPT ![r] =
                        [started EXCEPT !.pc = "getPackageName",
                                        !.workspaceRoot = workspaceRoot,
                                        !.relativePath = PathRelative(sep, workspaceRoot, sourcePath)]]
    /\ UNCHANGED <<sep, manifest, srcs, budget, files, dirs, writes, faults, lensVars, watchVars>>

\* lines 306-314: readFile of pubspec.yaml settles, the test file info is computed
ReadManifest(r) ==
    /\ runs[r].pc = "getPackageName"
    /\ \E fault \in MayFail :
      /\ faults' = IF fault THEN faults + 1 ELSE faults
      /\ LET run == runs[r]
            pubspecPath == PathJoin(sep, <<run.workspaceRoot, S_pubspec>>)
            readOk == pubspecPath \in DOMAIN files /\ ~fault
            packageName == getPackageName(readOk, IF readOk THEN files[pubspecPath] ELSE <<>>)
            testFileInfo == calculateTestFileInfo(sep, run.workspaceRoot, run.sourcePath,
                                run.relativePath, run.sourceFileName, run.ext, packageName)
        IN  runs' = [runs EXCEPT ![r] =
                [Logged(run, IF readOk THEN "readFile" ELSE "readFile:error")
                    EXCEPT !.pc = "fileExists",
                           !.packageName = packageName,
                           !.testPath = testFileInfo.testPath,
                           !.importPath = testFileInfo.importPath]]
    /\ UNCHANGED <<sep, manifest, srcs, budget, files, dirs, writes, lensVars, watchVars>>

\* lines 317, 236-243: stat settles; fileExists answers false whatever stat threw
Stat(r) ==
    /\ runs[r].pc = "fileExists"
    /\ \E fault \in MayFail :
      /\ faults' = IF fault THEN faults + 1 ELSE faults
      /\ LET run == runs[r]
            exists == run.testPath \in DOMAIN files
            event == IF fault THEN "stat:error" ELSE IF exists THEN "stat" ELSE "stat:notFound"
        IN  runs' = [runs EXCEPT ![r] =
                [Logged(run, event)
                    EXCEPT !.existed = exists,
                           !.pc = IF exists /\ ~fault THEN "openExistingTestFile"
                                  ELSE "ensureDirectoryExists"]]
    /\ UNCHANGED <<sep, manifest, srcs, budget, files, dirs, writes, lensVars, watchVars>>

\* lines 318-319, 260-267: the existing file is opened and shown
OpenExisting(r) ==
    /\ runs[r].pc = "openExistingTestFile"
    /\ \E fault \in MayFail :
      /\ faults' = IF fault THEN faults + 1 ELSE faults
      /\ LET run == runs[r]
        IN  runs' = [runs EXCEPT ![r] =
                IF fault THEN Caught(Logged(run, "open:error"), "open")
                ELSE [Logged(run, "open")
                        EXCEPT !.pc = "done",
                               !.notes = Append(@, Note("info", "Test file already exists: ",
                                                        PathBasename(sep, run.testPath, <<>>), ""))]]
    /\ UNCHANGED <<sep, manifest, srcs, budget, files, dirs, writes, lensVars, watchVars>>

\* lines 323-324, 248-255: createDirectory settles, whatever it threw is dropped
EnsureDirectory(r) ==
    /\ runs[r].pc = "ensureDirectoryExists"
    /\ \E fault \in MayFail :
      /\ faults' = IF fault THEN faults + 1 ELSE faults
      /\ LET run == runs[r]
            dirPath == PathDirname(sep, run.testPath)
        IN  /\ dirs' = IF fault THEN dirs ELSE dirs \cup {dirPath}
            /\ runs' = [runs EXCEPT ![r] =
                [Logged(run, IF fault THEN "createDirectory:error" ELSE "createDirectory")
                    EXCEPT !.pc = "writeFile",
                           !.content = generateTestContent(run.className, run.importPath)]]
    /\ UNCHANGED <<sep, manifest, srcs, budget, files, writes, lensVars, watchVars>>

\* lines 325, 277-278: writeFile settles
WriteFile(r) ==
    /\ runs[r].pc = "writeFile"
    /\ \E fault \in MayFail :
      /\ faults' = IF fault THEN faults + 1 ELSE faults
      /\ LET run == runs[r]
        IN  IF fault
            THEN /\ runs' = [runs EXCEPT ![r] = Caught(Logged(run, "writeFile:error"), "writeFile")]
                 /\ UNCHANGED <<files, writes>>
            ELSE /\ runs' = [runs EXCEPT ![r] = [Logged(run, "writeFile") EXCEPT !.pc = "openTextDocument"]]
                 /\ files' = [p \in DOMAIN files \cup {run.testPath} |->
                                IF p = run.testPath THEN run.content ELSE files[p]]
                 /\ writes' = Append(writes, [path |-> run.testPath, by |-> r,
                                              replaced |-> run.testPath \in DOMAIN files])
    /\ UNCHANGED <<sep, manifest, srcs, budget, dirs, lensVars, watchVars>>

\* createAndOpenTestFile announcing the file before it is opened
OpenNew_announceFirst(r) ==
    /\ runs[r].pc = "openTextDocument"
    /\ \E fault \in MayFail :
      /\ faults' = IF fault THEN faults + 1 ELSE faults
      /\ LET run == runs[r]
            told == [run EXCEPT !.notes = Append(@, Note("info", "Created test: ",
                                    PathRelative(sep, run.workspaceRoot, run.testPath), ""))]
        IN  runs' = [runs EXCEPT ![r] =
                IF fault THEN Caught(Logged(told, "open:error"), "open")
                ELSE [Logged(told, "open") EXCEPT !.pc = "done"]]
    /\ UNCHANGED <<sep, manifest, srcs, budget, files, dirs, writes, lensVars, watchVars>>

\* lines 280-285: the new file is opened and shown, then announced
OpenNew(r) ==
    /\ runs[r].pc = "openTextDocument"
    /\ \E fault \in MayFail :
      /\ faults' = IF fault THEN faults + 1 ELSE faults
      /\ LET run == runs[r]
        IN  runs' = [runs EXCEPT ![r] =
                IF fault THEN Caught(Logged(run, "open:error"), "open")
                ELSE [Logged(run, "open")
                        EXCEPT !.pc = "done",
                               !.notes = Append(@, Note("info", "Created test: ",
                                            PathRelative(sep, run.workspaceRoot, run.testPath), ""))]]
    /\ UNCHANGED <<sep, manifest, srcs, budget, files, dirs, writes, lensVars, watchVars>>

----------------------------------------------------------------------------
(* Specifications of the command *)

LensIdle ==
    /\ doc = <<>>
    /\ docLines = <<>>
    /\ lensPc = [state |-> "off", i |-> 0]
    /\ lenses = <<>>

WatchIdle ==
    /\ present = {}
    /\ lastEvent = [kind |-> "none", path |-> <<>>]
    /\ refreshed = {}

OrchUris == {LibUri, OutsideUri}

\* where the command looks for the test of a source uri of the workspace
DerivedTestPath(sp, uri) ==
    LET sourcePath == FsPath(sp, uri)
        workspaceRoot == FsPath(sp, WorkspaceFolderUri)
        ext == PathExtname(sp, sourcePath)
    IN  calculateTestFileInfo(sp, workspaceRoot, sourcePath,
            PathRelative(sp, workspaceRoot, sourcePath),
            PathBasename(sp, sourcePath, ext), ext, Null).testPath

\* a hand-written test may already sit there
TestsBefore(sp, uri) ==
    IF InWorkspaceFolder(uri) THEN {{}, {DerivedTestPath(sp, uri)}} ELSE {{}}

\* overlapping invocations on a posix host
Init ==
    /\ sep = "/"
    /\ manifest = NamedManifest
    /\ srcs = OrchUris
    /\ budget = MaxRuns
    /\ \E tests \in TestsBefore("/", LibUri) : files = InitialFiles("/", NamedManifest, tests)
    /\ dirs = {}
    /\ runs = [r \in Runs |-> IdleRun]
    /\ writes = <<>>
    /\ faults = 0
    /\ LensIdle
    /\ WatchIdle

\* one invocation, over every source uri, host and manifest
InitDerive ==
    /\ sep \in {"/", "\\"}
    /\ manifest \in Manifests
    /\ \E uri \in AllUris :
        /\ srcs = {uri}
        /\ \E tests \in TestsBefore(sep, uri) : files = InitialFiles(sep, manifest, tests)
    /\ budget = 1
    /\ dirs = {}
    /\ runs = [r \in Runs |-> IdleRun]
    /\ writes = <<>>
    /\ faults = 0
    /\ LensIdle
    /\ WatchIdle

Next ==
    \/ \E r \in Runs : Invoke(r)
    \/ \E r \in Runs : ReadManifest(r)
    \/ \E r \in Runs : Stat(r)
    \/ \E r \in Runs : OpenExisting(r)
    \/ \E r \in Runs : EnsureDirectory(r)
    \/ \E r \in Runs : WriteFile(r)
    \/ \E r \in Runs : OpenNew(r)

Spec == Init /\ [][Next]_vars

SpecDerive == InitDerive /\ [][Next]_vars

----------------------------------------------------------------------------
(* Class-Declaration Matcher *)

Modifiers == {<<"a","b","s","t","r","a","c","t">>, <<"b","a","s","e">>, <<"i","n","t","e","r","f","a","c","e">>, <<"f","i","n","a","l">>, <<"s","e","a","l","e","d">>, <<"m","i","x","i","n">>}
S_class == <<"c","l","a","s","s">>
Spaces == {" ", "\t", "\n", "\r"}
IdentStart == Upper \cup Lower \cup {"_"}
IdentPart == Upper \cup Lower \cup Digit \cup {"_"}

NoMatch == [matched |-> FALSE, whole |-> <<>>, className |-> <<>>]

\* (?:(?:abstract|base|interface|final|sealed|mixin)\s+)* from position i:
\* the position after the last modifier and its spaces
RECURSIVE SkipModifiers(_, _)
SkipModifiers(line, i) ==
    LET rest == SubSeq(line, i, Len(line))
        found == {m \in Modifiers : StartsWith(rest, m)}
    IN  IF found = {} THEN i
        ELSE LET m == CHOOSE x \in found : TRUE
                 j == SkipClass(line, i + Len(m), Spaces)
             IN  IF j = i + Len(m) THEN i ELSE SkipModifiers(line, j)

\* the rest of DART_CLASS_REGEX from i: class\s+(identifier), the identifier
\* starting with a character of `first`
ClassAndName(line, i, first) ==
    IF ~StartsWith(SubSeq(line, i, Len(line)), S_class) THEN NoMatch
    ELSE LET j == SkipClass(line, i + Len(S_class), Spaces)
         IN  IF j = i + Len(S_class) \/ j > Len(line) \/ line[j] \notin first THEN NoMatch
             ELSE LET k == SkipClass(line, j + 1, IdentPart)
                  IN  [matched |-> TRUE, whole |-> SubSeq(line, 1, k - 1),
                       className |-> SubSeq(line, j, k - 1)]

\* DART_CLASS_REGEX with [A-Za-z0-9_] as the first character of the identifier
DART_CLASS_REGEX_anyFirst(line) ==
    ClassAndName(line, SkipModifiers(line, SkipClass(line, 1, Spaces)), IdentPart)

\* line.match(DART_CLASS_REGEX)
DART_CLASS_REGEX(line) ==
    ClassAndName(line, SkipModifiers(line, SkipClass(line, 1, Spaces)), IdentStart)

\* text.split(/\r?\n/)
SplitLines(text) ==
    LET pieces == Split(text, "\n")
    IN  [i \in 1..Len(pieces) |->
            IF i < Len(pieces) /\ Len(pieces[i]) > 0 /\ pieces[i][Len(pieces[i])] = "\r"
            THEN SubSeq(pieces[i], 1, Len(pieces[i]) - 1)
            ELSE pieces[i]]

\* provideCodeLenses called
ProvideCodeLenses ==
    /\ lensPc.state = "called"
    /\ lensPc' = [state |-> "loop", i |-> 0]
    /\ lenses' = <<>>
    /\ UNCHANGED <<doc, docLines, orchVars, watchVars>>

\* one turn of the loop over the lines
ScanLine ==
    /\ lensPc.state = "loop"
    /\ lensPc.i < Len(SplitLines(doc))
    /\ LET i == lensPc.i
           match == DART_CLASS_REGEX(SplitLines(doc)[i + 1])
       IN  lenses' = IF match.matched
                     THEN Append(lenses, [line |-> i, start |-> 0, end |-> Len(match.whole),
                                          className |-> match.className])
                     ELSE lenses
    /\ lensPc' = [lensPc EXCEPT !.i = @ + 1]
    /\ UNCHANGED <<doc, docLines, orchVars, watchVars>>

\* the loop ends, the lenses are returned
ReturnLenses ==
    /\ lensPc.state = "loop"
    /\ lensPc.i >= Len(SplitLines(doc))
    /\ lensPc' = [lensPc EXCEPT !.state = "returned"]
    /\ UNCHANGED <<doc, docLines, lenses, orchVars, watchVars>>

----------------------------------------------------------------------------
(* Documents given to the matcher *)

Decl(indent, mods, name, rest) ==
    [kind |-> "decl", indent |-> indent, mods |-> mods, name |-> name, rest |-> rest]

Other(text) ==
    [kind |-> "other", indent |-> text, mods |-> <<>>, name |-> <<>>, rest |-> <<>>]

\* what is typed up to the end of the class name
DeclPrefix(l) ==
    l.indent \o Join([i \in 1..Len(l.mods) |-> l.mods[i] \o <<" ">>], <<>>)
             \o S_class \o <<" ">> \o l.name

TextOf(l) == IF l.kind = "decl" THEN DeclPrefix(l) \o l.rest ELSE l.indent

\* class declarations with every combination of up to MaxMods modifiers
FocusLines ==
    {Decl(<<>>, mods, <<"F","o","o">>, <<" ","{">>) : mods \in SeqsUpTo(Modifiers, MaxMods)}
    \cup {Decl(<<" ", " ">>, mods, <<"_","a","1">>, <<"<","T",">"," ","{">>) : mods \in SeqsUpTo(Modifiers, MaxMods)}

\* the lines around them: a declaration, an identifier starting with a digit,
\* lines without the class keyword
ContextLines ==
    { Decl(<<>>, <<>>, <<"B">>, <<" ","e","x","t","e","n","d","s"," ","A"," ","{">>),
      Other(<<"c","l","a","s","s"," ","1","F","o","o"," ","{">>),
      Other(<<"m","i","x","i","n"," ","F","o","o"," ","{">>),
      Other(<<>>) }

Documents ==
    {ctx \o <<focus>> : ctx \in SeqsUpTo(ContextLines, MaxContext), focus \in FocusLines}

InitLens ==
    /\ docLines \in Documents
    /\ \E eol \in {<<"\n">>, <<"\r", "\n">>} :
          doc = Join([i \in 1..Len(docLines) |-> TextOf(docLines[i])], eol)
    /\ lensPc = [state |-> "called", i |-> 0]
    /\ lenses = <<>>
    /\ sep = "/"
    /\ manifest = NamedManifest
    /\ srcs = {}
    /\ budget = 0
    /\ files = InitialFiles("/", NamedManifest, {})
    /\ dirs = {}
    /\ runs = [r \in Runs |-> IdleRun]
    /\ writes = <<>>
    /\ faults = 0
    /\ WatchIdle

NextLens ==
    \/ ProvideCodeLenses
    \/ ScanLine
    \/ ReturnLenses

SpecLens == InitLens /\ [][NextLens]_vars

----------------------------------------------------------------------------
(* File watcher: activate, onDidCreate / onDidDelete *)

\* refreshRelatedFile(uri, provider): the paths handed to provider.refresh
refreshRelatedFile(fsPath) ==
    IF Includes(fsPath, S_testDart)
    THEN {ReplaceFirst(fsPath, S_testDart, S_dart)}
    ELSE IF EndsWith(fsPath, S_dart)
    THEN {ReplaceFirst(fsPath, S_dart, S_testDart)}
    ELSE {}

WatchSources == {LibUri, MkUri(<<S_lib, <<"m">>>>, <<"u",".","d","a","r","t">>), MkUri(<<<<"m">>>>, <<"u",".","d","a","r","t">>)}

\* the .dart files the watcher can report: the sources and their tests
WatchPaths ==
    {FsPath("/", uri) : uri \in WatchSources} \cup {DerivedTestPath("/", uri) : uri \in WatchSources}

\* fileWatcher.onDidCreate
OnDidCreate(path) ==
    /\ path \notin present
    /\ present' = present \cup {path}
    /\ lastEvent' = [kind |-> "create", path |-> path]
    /\ refreshed' = {path} \cup refreshRelatedFile(path)
    /\ UNCHANGED <<orchVars, lensVars>>

\* fileWatcher.onDidDelete
OnDidDelete(path) ==
    /\ path \in present
    /\ present' = present \ {path}
    /\ lastEvent' = [kind |-> "delete", path |-> path]
    /\ refreshed' = {path} \cup refreshRelatedFile(path)
    /\ UNCHANGED <<orchVars, lensVars>>

InitWatch ==
    /\ WatchIdle
    /\ LensIdle
    /\ sep = "/"
    /\ manifest = NamedManifest
    /\ srcs = {}
    /\ budget = 0
    /\ files = InitialFiles("/", NamedManifest, {})
    /\ dirs = {}
    /\ runs = [r \in Runs |-> IdleRun]
    /\ writes = <<>>
    /\ faults = 0

NextWatch ==
    \/ \E path \in WatchPaths : OnDidCreate(path)
    \/ \E path \in WatchPaths : OnDidDelete(path)

SpecWatch == InitWatch /\ [][NextWatch]_vars

----------------------------------------------------------------------------
(* Vocabulary of the properties *)

\* the directories and the file name of a workspace uri, below the workspace folder
UriSegs(uri) == Split(SubSeq(uri, Len(WorkspaceFolderUri) + 2, Len(uri)), "/")

Repeat(s, n) == Join([i \in 1..(n + 1) |-> <<>>], s)

Events(run) == {run.log[i] : i \in 1..Len(run.log)}

\* the run has derived its test file info
Derived(run) == run.testPath # <<>>

UnderLib(run) == Len(UriSegs(run.uri)) >= 2 /\ UriSegs(run.uri)[1] = S_lib

\* the run created its test file, and the file is there
Created(run) ==
    /\ run.pc = "done"
    /\ run.log[Len(run.log)] = "open"
    /\ "writeFile" \in Events(run)
    /\ run.testPath \in DOMAIN files

----------------------------------------------------------------------------
(* C3 *)

\* C3: for a source under lib, the test path is workspaceRoot / test / the
\* directories below lib / (sourceBaseName + "_test" + extension); a source
\* directly in lib gets workspaceRoot / test / name, with no directory between.
LibTestPathMirrorsLib ==
    \A r \in Runs :
        LET run == runs[r]
            segs == UriSegs(run.uri)
            n == Len(segs)
        IN  (Derived(run) /\ UnderLib(run)) =>
                /\ run.sourceFileName \o run.ext = segs[n]
                /\ run.testPath =
                     Join(<<run.workspaceRoot, S_test>> \o SubSeq(segs, 2, n - 1)
                            \o <<run.sourceFileName \o S_testSuffix \o run.ext>>, <<sep>>)

\* a source directly in lib whose test was created
LibTestPathWitness ==
    \E r \in Runs :
        /\ Derived(runs[r]) /\ UnderLib(runs[r])
        /\ Len(UriSegs(runs[r].uri)) = 2
        /\ Created(runs[r])

\* a source two directories below lib whose test was created
LibTestPathNestedWitness ==
    \E r \in Runs :
        /\ Derived(runs[r]) /\ UnderLib(runs[r])
        /\ Len(UriSegs(runs[r].uri)) = 3
        /\ Created(runs[r])

----------------------------------------------------------------------------
(* C4 *)

L_up == <<".",".","/">>

ReadFailed(run) == "readFile:error" \in Events(run)

\* C4: for a source under lib the import path is package:<name>/<path under lib>
\* when the manifest's `name: <identifier>` line was read, and otherwise (no
\* manifest, unreadable, no such line) the run goes on without a notice and the
\* import path is ../ once for test and once per directory below lib, then
\* lib/<path under lib>; either way it holds no backslash.
LibImportPath ==
    \A r \in Runs :
        LET run == runs[r]
            segs == UriSegs(run.uri)
            n == Len(segs)
            underLib == Join(SubSeq(segs, 2, n), <<"/">>)
        IN  (Derived(run) /\ UnderLib(run)) =>
                /\ run.packageName =
                     (IF ReadFailed(run) \/ ~manifest.present THEN Null ELSE manifest.nameLine)
                /\ ~run.packageName.isNull =>
                     run.importPath = S_package \o run.packageName.value \o <<"/">> \o underLib
                /\ run.packageName.isNull =>
                     run.importPath = Repeat(L_up, n - 1) \o S_libFwd \o underLib
                /\ \A i \in 1..Len(run.importPath) : run.importPath[i] # "\\"
                /\ run.pc = "fileExists" => run.notes = <<>>

\* no package name, a directory below lib, a win32 host: the relative import was written
LibImportPathWitness ==
    \E r \in Runs :
        /\ Derived(runs[r]) /\ UnderLib(runs[r])
        /\ Len(UriSegs(runs[r].uri)) = 3
        /\ sep = "\\"
        /\ runs[r].packageName.isNull
        /\ Created(runs[r])

\* a package name was read, a directory below lib, a win32 host
LibPackageImportWitness ==
    \E r \in Runs :
        /\ Derived(runs[r]) /\ UnderLib(runs[r])
        /\ Len(UriSegs(runs[r].uri)) = 3
        /\ sep = "\\"
        /\ ~runs[r].packageName.isNull
        /\ Created(runs[r])

----------------------------------------------------------------------------
(* C5 *)

\* C5: for a source of the workspace not under lib, the test path is the
\* source's directory / (sourceBaseName + "_test" + extension) and the import
\* path is ./ + sourceBaseName + extension, whatever the package name.
NonLibSibling ==
    \A r \in Runs :
        LET run == runs[r]
            segs == UriSegs(run.uri)
            n == Len(segs)
        IN  (Derived(run) /\ ~UnderLib(run)) =>
                /\ run.sourceFileName \o run.ext = segs[n]
                /\ run.testPath =
                     Join(<<run.workspaceRoot>> \o SubSeq(segs, 1, n - 1)
                            \o <<run.sourceFileName \o S_testSuffix \o run.ext>>, <<sep>>)
                /\ run.importPath = S_dotSlash \o segs[n]

\* a source in a directory whose name starts with lib, with a package name read
NonLibSiblingWitness ==
    \E r \in Runs :
        /\ Derived(runs[r])
        /\ Len(UriSegs(runs[r].uri)) = 2
        /\ UriSegs(runs[r].uri)[1] = <<"l","i","b","x">>
        /\ ~runs[r].packageName.isNull
        /\ Created(runs[r])

\* a source directly at the workspace root
NonLibRootWitness ==
    \E r \in Runs :
        /\ Derived(runs[r])
        /\ Len(UriSegs(runs[r].uri)) = 1
        /\ Created(runs[r])

----------------------------------------------------------------------------
(* C7 *)

L_importOpen == <<"i","m","p","o","r","t"," ","'">>
L_importClose == <<"'",";">>
L_main == <<"v","o","i","d"," ","m","a","i","n","(",")"," ","{">>
L_groupOpen == <<" "," ","g","r","o","u","p","(","'">>
L_groupClose == <<"'",","," ","(",")"," ","{">>
L_end == <<" "," ","}",")",";">>
L_brace == <<"}">>

Generated(run) == run.content # <<>>

NonEmpty(lines) == SelectSeq(lines, LAMBDA l : Len(l) > 0)

\* C7, as amended: the content is the fixed template of seven lines (five of
\* them not empty), each ended by a line feed: the import of importPath, an
\* empty line, the entry function, the group named className, an empty line,
\* the end of the group, the end of the function; nothing else enters it.
TemplateOfSevenLines ==
    \A r \in Runs :
        LET run == runs[r]
        IN  Generated(run) =>
                Split(run.content, "\n") =
                    << L_importOpen \o run.importPath \o L_importClose,
                       <<>>,
                       L_main,
                       L_groupOpen \o run.className \o L_groupClose,
                       <<>>,
                       L_end,
                       L_brace,
                       <<>> >>

\* C7, as stated: four lines, the class name in the import line and in the group name
TemplateOfFourLines ==
    \A r \in Runs :
        LET run == runs[r]
            lines == Split(run.content, "\n")
        IN  Generated(run) =>
                /\ Len(NonEmpty(lines)) = 4
                /\ Includes(lines[1], run.className)
                /\ Includes(lines[4], run.className)

\* the content generated for class A was written to the test file
TemplateWitness ==
    \E r \in Runs :
        /\ Generated(runs[r])
        /\ runs[r].className = <<"A">>
        /\ Created(runs[r])
        /\ files[runs[r].testPath] = runs[r].content

----------------------------------------------------------------------------
(* C1, C2, C8, C10: the sequencing of the command *)

StatEvents == {"stat", "stat:notFound", "stat:error"}
DirEvents == {"createDirectory", "createDirectory:error"}
WriteEvents == {"writeFile", "writeFile:error"}
OpenEvents == {"open", "open:error"}

\* the place of an event in the sequence of the command
Rank(event) ==
    IF event \in {"readFile", "readFile:error"} THEN 1
    ELSE IF event \in StatEvents THEN 2
    ELSE IF event \in DirEvents THEN 3
    ELSE IF event \in WriteEvents THEN 4
    ELSE 5

\* the events of the run's log after its first occurrence of event
After(run, event) ==
    LET at == {i \in 1..Len(run.log) : run.log[i] = event}
    IN  IF at = {} THEN {}
        ELSE {run.log[j] : j \in ((CHOOSE i \in at : \A k \in at : i <= k) + 1)..Len(run.log)}

Kinds(run) == {<<run.notes[i].kind, run.notes[i].text>> : i \in 1..Len(run.notes)}

\* C1: a run whose test path existed when it made its existence check issues
\* no writeFile for it.
ExistingNeverWritten ==
    \A r \in Runs :
        runs[r].existed => Events(runs[r]) \cap WriteEvents = {}

\* C2: whatever the interleaving of the invocations, and even with no I/O
\* operation failing, at most one writeFile is applied to a path.
OneWritePerPath ==
    faults = 0 =>
        \A i \in 1..Len(writes), j \in 1..Len(writes) :
            i # j => writes[i].path # writes[j].path

\* C8: after a failed existence check nothing later is executed, after a
\* failed directory creation no writeFile is executed, and a run that met
\* either failure ends with the error notification.
AbortOnFailure ==
    \A r \in Runs :
        LET run == runs[r]
        IN  /\ After(run, "stat:error") = {}
            /\ After(run, "createDirectory:error") = {}
            /\ After(run, "writeFile:error") = {}
            /\ After(run, "open:error") = {}
            /\ ({"stat:error", "createDirectory:error", "writeFile:error", "open:error"}
                    \cap Events(run) # {} /\ run.pc = "done")
                 => Kinds(run) = {<<"error", "Failed to create test file: ">>}

\* C10: the existence check comes before the directory creation, that before
\* the write, that before the open; "Created test: <relative path>" is shown
\* only when the write and then the open succeeded; a run shows exactly one
\* notification, when it ends, and none before.
StepOrder ==
    \A r \in Runs :
        LET run == runs[r]
            log == run.log
        IN  /\ \A i \in 1..Len(log), j \in 1..Len(log) : i < j => Rank(log[i]) < Rank(log[j])
            /\ Events(run) \cap DirEvents # {} => Events(run) \cap StatEvents # {}
            /\ Events(run) \cap WriteEvents # {} => Events(run) \cap DirEvents # {}
            /\ (Events(run) \cap OpenEvents # {} /\ "stat" \notin Events(run))
                 => "writeFile" \in Events(run)
            /\ Len(run.notes) = (IF run.pc = "done" THEN 1 ELSE 0)
            /\ \A i \in 1..Len(run.notes) :
                 LET note == run.notes[i]
                 IN  \/ /\ note.kind = "info" /\ note.text = "Created test: "
                        /\ "writeFile" \in Events(run)
                        /\ log[Len(log)] = "open"
                        /\ run.workspaceRoot \o <<sep>> \o note.path = run.testPath
                     \/ /\ note.kind = "info" /\ note.text = "Test file already exists: "
                        /\ log[Len(log)] = "open"
                        /\ "stat" \in Events(run)
                     \/ /\ note.kind = "error" /\ note.text = "Failed to create test file: "
                        /\ log[Len(log)] \in {"writeFile:error", "open:error"}
                        /\ note.cause # ""
                     \/ /\ note.kind = "error" /\ note.text = "File is not in a workspace folder"
                        /\ log = <<>>

\* a run went through every step and announced the file it created
StepOrderWitness ==
    \E r \in Runs :
        /\ runs[r].log = <<"readFile", "stat:notFound", "createDirectory", "writeFile", "open">>
        /\ runs[r].pc = "done"
        /\ Kinds(runs[r]) = {<<"info", "Created test: ">>}
        /\ runs[r].testPath \in DOMAIN files

----------------------------------------------------------------------------
(* C6 *)

\* the lenses expected for the first n lines as typed
RECURSIVE ExpectedLenses(_, _)
ExpectedLenses(typed, n) ==
    IF n = 0 THEN <<>>
    ELSE LET l == typed[n]
         IN  IF l.kind = "decl"
             THEN Append(ExpectedLenses(typed, n - 1),
                         [line |-> n - 1, start |-> 0, end |-> Len(DeclPrefix(l)),
                          className |-> l.name])
             ELSE ExpectedLenses(typed, n - 1)

\* C6: each line typed as modifiers, class, space, identifier yields exactly
\* one lens, on its line, from column 0 to the end of the identifier, with
\* the identifier as class name; a line whose identifier starts with a digit
\* or that has no class keyword yields none; the lenses come in line order.
MatcherExtractsIdentifier ==
    lensPc.state \in {"loop", "returned"} =>
        lenses = ExpectedLenses(docLines, lensPc.i)

\* a document with a digit-first line and a declaration with two modifiers, scanned
MatcherWitness ==
    /\ lensPc.state = "returned"
    /\ Len(docLines) = 2
    /\ docLines[1] = Other(<<"c","l","a","s","s"," ","1","F","o","o"," ","{">>)
    /\ docLines[2].kind = "decl"
    /\ Len(docLines[2].mods) = 2
    /\ Len(lenses) = 1
    /\ lenses[1].line = 1

----------------------------------------------------------------------------
(* C9 *)

\* C9: handling the creation or deletion of a test file refreshes the source
\* whose derived test path it is, and handling that of a source refreshes
\* the source's derived test path.
WatcherFollowsLayout ==
    lastEvent.kind # "none" =>
        \A uri \in WatchSources :
            /\ lastEvent.path = DerivedTestPath("/", uri) => FsPath("/", uri) \in refreshed
            /\ lastEvent.path = FsPath("/", uri) => DerivedTestPath("/", uri) \in refreshed

====
